---- MODULE Spec2Model ----
(***************************************************************************)
(* Model of the todo screen of src/todo_frontend/App.tsx: the React state  *)
(* of the App component (todos, filter, isModalVisible, currentTitle,      *)
(* editingId), the Date.now() clock, the alert dialogs opened with         *)
(* Alert.alert and not yet answered, and one action per event handler.     *)
(*                                                                         *)
(* Two specifications share the handlers.  Spec drives them the way the    *)
(* rendered screen lets a user drive them: the row buttons exist only for  *)
(* the rows of filteredTodos, the editor's controls only while the Modal   *)
(* is visible, and the full-screen Modal overlay covers the main screen.   *)
(* No handler looks at the dialogs that wait for an answer, so a waiting   *)
(* dialog disables nothing.  ApiSpec calls the handlers marked             *)
(* PUBLIC_INTERFACE in any order with any id, whatever the screen shows.   *)
(***************************************************************************)
EXTENDS Integers, Sequences, FiniteSets

\* ---------------------------------------------------------------- bounds
\* longest text typed into the TextInput
MaxLen == 2
\* most todos held at once
MaxTodos == 3
\* most todos held at once while every text is typed and every filter is used
MaxEditorTodos == 2
\* largest value the Date.now() clock takes
MaxClock == 1
\* number of distinct values of Math.random().toString(36).slice(2, 8)
MaxRand == 2
\* most Alert.alert dialogs waiting for an answer at once
MaxPending == 1

\* todos, filter, isModalVisible, currentTitle, editingId: the useState cells
\* now:        the value Date.now() returned last; it never goes back
\* platform:   Platform.OS, "native" standing for ios and android
\* alerts:     the Alert.alert dialogs opened and not yet answered
\* lastAnswer: what the latest step did with a prompt: "shown" (a dialog was
\*             opened), "ok" (confirm() returned true, or the button carrying
\*             onPress was pressed), "cancel" (confirm() returned false, or a
\*             dialog was closed by a button without onPress), "none" otherwise
VARIABLES todos, filter, isModalVisible, currentTitle, editingId,
          now, platform, alerts, lastAnswer

vars == <<todos, filter, isModalVisible, currentTitle, editingId,
          now, platform, alerts, lastAnswer>>

\* ---------------------------------------------------------------- values
\* the characters of a title: one whitespace character and one letter
Chars == {" ", "a"}

\* a text is a sequence of characters
Texts == UNION {[1..n -> Chars] : n \in 0..MaxLen}

\* editingId = null
Null == <<>>

\* updatedAt absent from the object
Unset == -1

\* `${Date.now()}-${Math.random().toString(36).slice(2, 8)}`
MakeId(t, r) == <<t, r>>

RandSuffixes == 0..(MaxRand - 1)

AllIds == {MakeId(t, r) : t \in 0..MaxClock, r \in RandSuffixes}

Filters == {"all", "active", "completed"}

Platforms == {"web", "native"}

\* ---------------------------------------------------------------- String.prototype.trim
RECURSIVE TrimStart(_)
TrimStart(s) ==
  IF s = <<>> THEN <<>>
  ELSE IF Head(s) = " " THEN TrimStart(Tail(s)) ELSE s

RECURSIVE TrimEnd(_)
TrimEnd(s) ==
  IF s = <<>> THEN <<>>
  ELSE IF s[Len(s)] = " " THEN TrimEnd(SubSeq(s, 1, Len(s) - 1)) ELSE s

\* faulty variant: trimStart() in place of trim()
TrimStartOnly(s) == TrimStart(s)

\* faulty variant: the draft is used as typed
TrimMissing(s) == s

Trim(s) == TrimEnd(TrimStart(s))

\* ---------------------------------------------------------------- Array helpers
\* prev.filter(keep) is SelectSeq(prev, keep)

\* the ids of the todos of a collection
IdsOf(c) == {c[i].id : i \in 1..Len(c)}

\* todos.find(x => x.id === id): the index of the first match, 0 when none
FindIndex(c, id) ==
  IF id \in IdsOf(c)
  THEN CHOOSE i \in 1..Len(c) : c[i].id = id /\ \A j \in 1..(i - 1) : c[j].id # id
  ELSE 0

\* ---------------------------------------------------------------- filteredTodos
\* faulty variant: the two filter cases are exchanged
VisibleSwapped(c, f) ==
  IF f = "active" THEN SelectSeq(c, LAMBDA t : t.completed)
  ELSE IF f = "completed" THEN SelectSeq(c, LAMBDA t : ~t.completed)
  ELSE c

Visible(c, f) ==
  IF f = "active" THEN SelectSeq(c, LAMBDA t : ~t.completed)
  ELSE IF f = "completed" THEN SelectSeq(c, LAMBDA t : t.completed)
  ELSE c

filteredTodos == Visible(todos, filter)

\* ---------------------------------------------------------------- setTodos updaters
\* A map callback calls Date.now() once for every todo whose id matches, in
\* the order of the list. The parameter t of the updaters below is the
\* sequence of the values these calls return: the k-th matching todo gets t[k].

\* the number of todos of c with the id: the number of Date.now() calls of the map
Matches(c, id) == Cardinality({i \in 1..Len(c) : c[i].id = id})

\* the todo at index i is the Rank-th todo of c with the id
Rank(c, id, i) == Cardinality({j \in 1..i : c[j].id = id})

\* faulty variant: the edited todo moves to the head of the list
UpdateTitleMoveToFront(c, id, title, t) ==
  IF FindIndex(c, id) = 0
  THEN c
  ELSE <<[c[FindIndex(c, id)] EXCEPT !.title = title, !.updatedAt = t[1]]>>
       \o SelectSeq(c, LAMBDA x : x.id # id)

\* prev.map(t => t.id === editingId ? { ...t, title, updatedAt: Date.now() } : t)
UpdateTitle(c, id, title, t) ==
  [i \in 1..Len(c) |->
     IF c[i].id = id
     THEN [c[i] EXCEPT !.title = title, !.updatedAt = t[Rank(c, id, i)]]
     ELSE c[i]]

\* faulty variant: the toggle does not stamp updatedAt
ToggleMapNoStamp(c, id, t) ==
  [i \in 1..Len(c) |->
     IF c[i].id = id THEN [c[i] EXCEPT !.completed = ~c[i].completed] ELSE c[i]]

\* prev.map(t => t.id === id ? { ...t, completed: !t.completed, updatedAt: Date.now() } : t)
ToggleMap(c, id, t) ==
  [i \in 1..Len(c) |->
     IF c[i].id = id
     THEN [c[i] EXCEPT !.completed = ~c[i].completed, !.updatedAt = t[Rank(c, id, i)]]
     ELSE c[i]]

\* prev.filter(t => t.id !== id)
performDelete(c, id) == SelectSeq(c, LAMBDA t : t.id # id)

\* faulty variant: prev.filter(t => t.completed), the predicate not negated
RemoveCompletedInverted(c) == SelectSeq(c, LAMBDA t : t.completed)

\* prev.filter(t => !t.completed)
RemoveCompleted(c) == SelectSeq(c, LAMBDA t : ~t.completed)

\* const newTodo: Todo = { id, title, completed: false, createdAt: Date.now() }
NewTodo(id, title, t) ==
  [id |-> id, title |-> title, completed |-> FALSE, createdAt |-> t, updatedAt |-> Unset]

\* ---------------------------------------------------------------- dialogs and events
\* a dialog opened by Alert.alert and not yet answered
Dialog(kind, id) == [kind |-> kind, id |-> id]

\* Alert.alert(...): the dialog is queued for display
CanAlert == Cardinality(alerts) < MaxPending

\* ---------------------------------------------------------------- initial state
Init ==
  /\ todos = <<>>
  /\ filter = "all"
  /\ isModalVisible = FALSE
  /\ currentTitle = <<>>
  /\ editingId = Null
  /\ now = 0
  /\ platform \in Platforms
  /\ alerts = {}
  /\ lastAnswer = "none"

\* ---------------------------------------------------------------- handlers
\* what n successive calls of Date.now() can return: the clock may move
\* between two calls and never goes back
ClockReads(n) ==
  {t \in [1..n -> now..MaxClock] : \A k \in 1..(n - 1) : t[k] <= t[k + 1]}

\* the clock after the calls that returned t
LastRead(t) == IF Len(t) = 0 THEN now ELSE t[Len(t)]

\* Date.now() moves on between two events
Tick ==
  /\ now < MaxClock
  /\ now' = now + 1
  /\ lastAnswer' = "none"
  /\ UNCHANGED <<todos, filter, isModalVisible, currentTitle, editingId, platform, alerts>>

setFilter(f) ==
  /\ filter' = f
  /\ lastAnswer' = "none"
  /\ UNCHANGED <<todos, isModalVisible, currentTitle, editingId, now, platform, alerts>>

openAddModal ==
  /\ editingId' = Null
  /\ currentTitle' = <<>>
  /\ isModalVisible' = TRUE
  /\ lastAnswer' = "none"
  /\ UNCHANGED <<todos, filter, now, platform, alerts>>

openEditModal(id) ==
  /\ IF FindIndex(todos, id) = 0
     THEN UNCHANGED <<editingId, currentTitle, isModalVisible>>
     ELSE /\ editingId' = id
          /\ currentTitle' = todos[FindIndex(todos, id)].title
          /\ isModalVisible' = TRUE
  /\ lastAnswer' = "none"
  /\ UNCHANGED <<todos, filter, now, platform, alerts>>

\* onChangeText={setCurrentTitle}
setCurrentTitle(s) ==
  /\ currentTitle' = s
  /\ lastAnswer' = "none"
  /\ UNCHANGED <<todos, filter, isModalVisible, editingId, now, platform, alerts>>

\* the three branches of saveTodo
SaveEmpty ==
  /\ Trim(currentTitle) = <<>>
  /\ CanAlert
  /\ alerts' = alerts \cup {Dialog("emptyTitle", Null)}
  /\ lastAnswer' = "shown"
  /\ UNCHANGED <<todos, filter, isModalVisible, currentTitle, editingId, now, platform>>

SaveEdit ==
  /\ Trim(currentTitle) # <<>>
  /\ editingId # Null
  /\ isModalVisible' = FALSE
  /\ currentTitle' = <<>>
  /\ editingId' = Null
  /\ lastAnswer' = "none"
  /\ UNCHANGED <<filter, platform, alerts>>
  /\ \E t \in ClockReads(Matches(todos, editingId)) :
       /\ todos' = UpdateTitle(todos, editingId, Trim(currentTitle), t)
       /\ now' = LastRead(t)

\* faulty variant: the new todo is pushed at the end
SaveNewAppend ==
  /\ Trim(currentTitle) # <<>>
  /\ editingId = Null
  /\ Len(todos) < MaxTodos
  /\ isModalVisible' = FALSE
  /\ currentTitle' = <<>>
  /\ editingId' = Null
  /\ lastAnswer' = "none"
  /\ UNCHANGED <<filter, platform, alerts>>
  /\ \E r \in RandSuffixes, t \in ClockReads(2) :
       /\ todos' = todos \o <<NewTodo(MakeId(t[1], r), Trim(currentTitle), t[2])>>
       /\ now' = LastRead(t)

\* the clock is read twice: for the id (t[1]), then for createdAt (t[2])
SaveNew ==
  /\ Trim(currentTitle) # <<>>
  /\ editingId = Null
  /\ Len(todos) < MaxTodos
  /\ isModalVisible' = FALSE
  /\ currentTitle' = <<>>
  /\ editingId' = Null
  /\ lastAnswer' = "none"
  /\ UNCHANGED <<filter, platform, alerts>>
  /\ \E r \in RandSuffixes, t \in ClockReads(2) :
       /\ todos' = <<NewTodo(MakeId(t[1], r), Trim(currentTitle), t[2])>> \o todos
       /\ now' = LastRead(t)

saveTodo == SaveEmpty \/ SaveEdit \/ SaveNew

\* the Cancel button of the editor
CancelButton ==
  /\ isModalVisible' = FALSE
  /\ currentTitle' = <<>>
  /\ editingId' = Null
  /\ lastAnswer' = "none"
  /\ UNCHANGED <<todos, filter, now, platform, alerts>>

\* Modal onRequestClose and the overlay's onPress
RequestClose ==
  /\ isModalVisible' = FALSE
  /\ lastAnswer' = "none"
  /\ UNCHANGED <<todos, filter, currentTitle, editingId, now, platform, alerts>>

toggleComplete(id) ==
  /\ lastAnswer' = "none"
  /\ UNCHANGED <<filter, isModalVisible, currentTitle, editingId, platform, alerts>>
  /\ \E t \in ClockReads(Matches(todos, id)) :
       /\ todos' = ToggleMap(todos, id, t)
       /\ now' = LastRead(t)

\* deleteTodo on the web: confirm() answers before the handler returns
DeleteWeb(id, ok) ==
  /\ platform = "web"
  /\ todos' = IF ok THEN performDelete(todos, id) ELSE todos
  /\ lastAnswer' = IF ok THEN "ok" ELSE "cancel"
  /\ UNCHANGED <<filter, isModalVisible, currentTitle, editingId, now, platform, alerts>>

\* faulty variant: onPress: performDelete() runs the delete while the dialog is built
DeleteNativeEager(id) ==
  /\ platform # "web"
  /\ CanAlert
  /\ alerts' = alerts \cup {Dialog("delete", id)}
  /\ todos' = performDelete(todos, id)
  /\ lastAnswer' = "shown"
  /\ UNCHANGED <<filter, isModalVisible, currentTitle, editingId, now, platform>>

\* deleteTodo elsewhere: Alert.alert returns at once, the answer comes later
DeleteNative(id) ==
  /\ platform # "web"
  /\ CanAlert
  /\ alerts' = alerts \cup {Dialog("delete", id)}
  /\ lastAnswer' = "shown"
  /\ UNCHANGED <<todos, filter, isModalVisible, currentTitle, editingId, now, platform>>

\* clearCompleted: nothing completed, the web, elsewhere
ClearNone ==
  /\ \A i \in 1..Len(todos) : ~todos[i].completed
  /\ lastAnswer' = "none"
  /\ UNCHANGED <<todos, filter, isModalVisible, currentTitle, editingId, now, platform, alerts>>

ClearWeb(ok) ==
  /\ \E i \in 1..Len(todos) : todos[i].completed
  /\ platform = "web"
  /\ todos' = IF ok THEN RemoveCompleted(todos) ELSE todos
  /\ lastAnswer' = IF ok THEN "ok" ELSE "cancel"
  /\ UNCHANGED <<filter, isModalVisible, currentTitle, editingId, now, platform, alerts>>

ClearNative ==
  /\ \E i \in 1..Len(todos) : todos[i].completed
  /\ platform # "web"
  /\ CanAlert
  /\ alerts' = alerts \cup {Dialog("clear", Null)}
  /\ lastAnswer' = "shown"
  /\ UNCHANGED <<todos, filter, isModalVisible, currentTitle, editingId, now, platform>>

\* a button of a displayed dialog is pressed (ok: the button that carries onPress)
AlertPress(d, ok) ==
  /\ d \in alerts
  /\ alerts' = alerts \ {d}
  /\ todos' = IF ok /\ d.kind = "delete" THEN performDelete(todos, d.id)
              ELSE IF ok /\ d.kind = "clear" THEN RemoveCompleted(todos)
              ELSE todos
  /\ lastAnswer' = IF ok /\ d.kind # "emptyTitle" THEN "ok" ELSE "cancel"
  /\ UNCHANGED <<filter, isModalVisible, currentTitle, editingId, now, platform>>

\* ---------------------------------------------------------------- the screen
\* the main screen takes touches: the Modal overlay is not above it
MainScreen == ~isModalVisible

\* the editor takes touches: <Modal visible={isModalVisible}>
EditorScreen == isModalVisible

\* the rows FlatList renders
RenderedIds == IdsOf(filteredTodos)

\* saveTodo does not take the collection beyond n todos
RoomFor(n) == Len(todos) < n \/ editingId # Null \/ Trim(currentTitle) = <<>>

UiTick == Tick
UiSetFilter == \E f \in Filters : MainScreen /\ setFilter(f)
UiOpenAdd == MainScreen /\ openAddModal
UiOpenEdit == \E id \in RenderedIds : MainScreen /\ openEditModal(id)
UiType == \E s \in Texts : EditorScreen /\ setCurrentTitle(s)
UiSave == EditorScreen /\ RoomFor(MaxEditorTodos) /\ saveTodo
UiCancel == EditorScreen /\ CancelButton
UiRequestClose == EditorScreen /\ RequestClose
UiToggle == \E id \in RenderedIds : MainScreen /\ toggleComplete(id)
UiDelete == \E id \in RenderedIds :
              MainScreen /\ (DeleteNative(id) \/ \E ok \in BOOLEAN : DeleteWeb(id, ok))
UiClear == MainScreen /\ (ClearNone \/ ClearNative \/ \E ok \in BOOLEAN : ClearWeb(ok))
UiAlert == \E d \in alerts, ok \in BOOLEAN : AlertPress(d, ok)

Next ==
  \/ UiTick \/ UiSetFilter \/ UiOpenAdd \/ UiOpenEdit \/ UiType \/ UiSave
  \/ UiCancel \/ UiRequestClose \/ UiToggle \/ UiDelete \/ UiClear \/ UiAlert

Spec == Init /\ [][Next]_vars

\* ---------------------------------------------------------------- the handlers called directly
ApiTick == Tick
ApiOpenAdd == openAddModal
ApiOpenEdit == \E id \in AllIds : openEditModal(id)
ApiType == \E s \in Texts : setCurrentTitle(s)
ApiSave == RoomFor(MaxEditorTodos) /\ saveTodo
ApiCancel == CancelButton
ApiRequestClose == RequestClose
ApiToggle == \E id \in AllIds : toggleComplete(id)
ApiDelete == \E id \in AllIds : DeleteNative(id) \/ \E ok \in BOOLEAN : DeleteWeb(id, ok)
ApiClear == ClearNone \/ ClearNative \/ \E ok \in BOOLEAN : ClearWeb(ok)
ApiAlert == \E d \in alerts, ok \in BOOLEAN : AlertPress(d, ok)

ApiNext ==
  \/ ApiTick \/ ApiOpenAdd \/ ApiOpenEdit \/ ApiType \/ ApiSave
  \/ ApiCancel \/ ApiRequestClose \/ ApiToggle \/ ApiDelete \/ ApiClear \/ ApiAlert

ApiSpec == Init /\ [][ApiNext]_vars

\* ---------------------------------------------------------------- a longer list
\* The screen driven as in Spec by a user who types titles without whitespace
\* and leaves the filter on 'all': the list grows to MaxTodos todos.
PlainTexts == {s \in Texts : s # <<>> /\ \A i \in 1..Len(s) : s[i] # " "}

ListType == \E s \in PlainTexts : EditorScreen /\ setCurrentTitle(s)
ListSave == EditorScreen /\ saveTodo

ListNext ==
  \/ UiTick \/ UiOpenAdd \/ UiOpenEdit \/ ListType \/ ListSave
  \/ UiCancel \/ UiToggle \/ UiDelete \/ UiClear \/ UiAlert

ListSpec == Init /\ [][ListNext]_vars

\* ================================================================ properties
\* a text holds a character that is not whitespace
HasNonSpace(s) == \E i \in 1..Len(s) : s[i] # " "

\* n whitespace characters
Spaces(n) == [i \in 1..n |-> " "]

\* t is s without its leading and trailing whitespace
IsTrimOf(t, s) ==
  /\ t = <<>> \/ (t[1] # " " /\ t[Len(t)] # " ")
  /\ \E i \in 0..Len(s), j \in 0..Len(s) : s = Spaces(i) \o t \o Spaces(j)

\* C1: saving a draft with a non-blank text while creating (editingId null)
\* adds exactly one todo, puts it first with completed = false, no updatedAt
\* and the trimmed draft as its title, and keeps the earlier todos, unchanged
\* and in their order, behind it.
C1_Create ==
  [][(saveTodo /\ editingId = Null /\ HasNonSpace(currentTitle)) =>
       /\ Len(todos') = Len(todos) + 1
       /\ todos'[1].completed = FALSE
       /\ todos'[1].updatedAt = Unset
       /\ IsTrimOf(todos'[1].title, currentTitle)
       /\ \A i \in 1..Len(todos) : todos'[i + 1] = todos[i]]_vars

\* a todo created from a draft was put in front of an older, completed one
C1_Witness ==
  /\ Len(todos) = 2
  /\ ~todos[1].completed /\ todos[1].updatedAt = Unset
  /\ todos[2].completed
  /\ todos[1].id # todos[2].id
  /\ ~isModalVisible /\ editingId = Null /\ currentTitle = <<>>

\* C2: saving a draft that trims to the empty text, while creating or while
\* editing, changes neither the collection nor the session: the editor stays
\* open, the draft text and editingId stay as they were.
C2_EmptyTitle ==
  [][(saveTodo /\ ~HasNonSpace(currentTitle)) =>
       /\ todos' = todos
       /\ isModalVisible' = isModalVisible
       /\ currentTitle' = currentTitle
       /\ editingId' = editingId]_vars

\* a whitespace-only draft was submitted while editing: the notice is up, the
\* editor is still open on the same todo with the same draft
C2_Witness ==
  /\ Dialog("emptyTitle", Null) \in alerts
  /\ isModalVisible
  /\ currentTitle = <<" ">>
  /\ editingId \in IdsOf(todos)

\* a step that shows the user a NotFound error
NotFoundReported == \E d \in alerts' \ alerts : d.kind = "notFound"

\* saveTodo runs for an edit whose todo is no longer in the collection
StaleSave ==
  /\ editingId # Null /\ editingId \notin IdsOf(todos)
  /\ HasNonSpace(currentTitle)
  /\ saveTodo

\* toggleComplete runs for an id that is not in the collection
AbsentToggle == \E id \in AllIds \ IdsOf(todos) : toggleComplete(id)

\* a delete of an id that is not in the collection is confirmed
AbsentDelete ==
  \/ \E id \in AllIds \ IdsOf(todos) : DeleteWeb(id, TRUE)
  \/ \E d \in alerts : d.kind = "delete" /\ d.id \notin IdsOf(todos) /\ AlertPress(d, TRUE)

\* C3 as stated: for an id that is not in the collection, saving an edit,
\* toggling and deleting each report NotFound and leave the collection unchanged.
C3_NotFoundReported ==
  [][(StaleSave \/ AbsentToggle \/ AbsentDelete) =>
       (todos' = todos /\ NotFoundReported)]_vars

\* what the handlers do instead: for an id that is not in the collection,
\* saving an edit with a non-blank draft, toggling and a confirmed delete each
\* leave the collection unchanged and open no dialog
C3_AbsentIdSilent ==
  [][(StaleSave \/ AbsentToggle \/ AbsentDelete) =>
       (todos' = todos /\ alerts' \subseteq alerts)]_vars

\* C4: whenever editingId is non-null, a todo with that id is in the collection.
C4_EditingIdPresent == editingId # Null => editingId \in IdsOf(todos)

\* C5 as stated: saving a non-blank draft for an edit whose todo was removed
\* reports NotFound, leaves the collection unchanged and ends the session
\* (editor closed, draft cleared, editingId null).
C5_StaleSaveNotFound ==
  [][StaleSave =>
       /\ NotFoundReported
       /\ todos' = todos
       /\ ~isModalVisible' /\ currentTitle' = <<>> /\ editingId' = Null]_vars

\* what saveTodo does instead: saving a non-blank draft for an edit whose todo
\* was removed changes no todo, ends the session (editor closed, draft
\* cleared, editingId null) and opens no dialog
C5_StaleSaveSilent ==
  [][StaleSave =>
       /\ alerts' = alerts
       /\ todos' = todos
       /\ ~isModalVisible' /\ currentTitle' = <<>> /\ editingId' = Null]_vars

\* the todos removed by a step are those the answered dialog was about
RemovedBy(d) ==
  \A i \in 1..Len(todos) :
    (\A j \in 1..Len(todos') : todos'[j] # todos[i]) =>
      IF d.kind = "delete" THEN todos[i].id = d.id ELSE todos[i].completed

\* C6: a step removes todos only when it carries the affirmative answer to a
\* confirmation prompt (on native platforms: to a delete or clear dialog that
\* was on display, and only the todos that dialog was about); a step that
\* carries a cancel or a dismissal leaves the collection unchanged.
C6_ConfirmationGate ==
  [][/\ Len(todos') < Len(todos) =>
          /\ lastAnswer' = "ok"
          /\ platform # "web" =>
               \E d \in alerts \ alerts' : d.kind \in {"delete", "clear"} /\ RemovedBy(d)
     /\ lastAnswer' = "cancel" => todos' = todos]_vars

\* a delete dialog on a native platform was answered with Delete and the todo
\* is gone, another one is left
C6_Witness ==
  /\ platform = "native"
  /\ lastAnswer = "ok"
  /\ alerts = {}
  /\ Len(todos) = 1

\* C7: every todo of the collection has a non-empty title without leading or
\* trailing whitespace.
C7_TitlesTrimmed ==
  \A i \in 1..Len(todos) :
    /\ todos[i].title # <<>>
    /\ todos[i].title[1] # " "
    /\ todos[i].title[Len(todos[i].title)] # " "

\* two todos with different titles, the older one re-titled by an edit
C7_Witness ==
  /\ Len(todos) = 2
  /\ todos[1].title = <<"a">>
  /\ todos[2].title = <<"a", "a">>
  /\ todos[2].updatedAt # Unset /\ ~todos[2].completed

\* C8: no two todos of the collection share an id.
C8_UniqueIds ==
  \A i \in 1..Len(todos), j \in 1..Len(todos) : i # j => todos[i].id # todos[j].id

\* the indices of the todos of c whose completed flag is b
IndicesOf(c, b) == {i \in 1..Len(c) : c[i].completed = b}

\* v lists, in the order of c, exactly the todos of c whose completed flag is b
IsProjection(v, c, b) ==
  /\ Len(v) = Cardinality(IndicesOf(c, b))
  /\ \A k \in 1..Len(v) :
       \E i \in IndicesOf(c, b) :
         /\ Cardinality({j \in IndicesOf(c, b) : j < i}) = k - 1
         /\ v[k] = c[i]

\* the todos a list holds
Elements(v) == {v[k] : k \in 1..Len(v)}

\* the projection of the collection is the claimed one under every filter
C9_Projections ==
  /\ Visible(todos, "all") = todos
  /\ IsProjection(Visible(todos, "active"), todos, FALSE)
  /\ IsProjection(Visible(todos, "completed"), todos, TRUE)
  /\ Elements(Visible(todos, "active")) \cap Elements(Visible(todos, "completed")) = {}
  /\ Elements(Visible(todos, "active")) \cup Elements(Visible(todos, "completed"))
       = Elements(Visible(todos, "all"))
  /\ filteredTodos = Visible(todos, filter)

\* C9: under 'all' the projection is the collection itself, under 'active' and
\* 'completed' it is the order-preserving subsequence of the uncompleted and of
\* the completed todos, the two are disjoint and together hold every todo; a
\* step that changes the filter leaves the collection unchanged.
C9_FilterProjection ==
  /\ []C9_Projections
  /\ [][filter' # filter => todos' = todos]_vars

\* the 'active' filter is selected over two different active todos
C9_Witness ==
  /\ filter = "active"
  /\ Len(todos) = 2
  /\ ~todos[1].completed /\ ~todos[2].completed
  /\ todos[1] # todos[2]
  /\ Len(filteredTodos) = 2

\* what toggleComplete(id) does to the todo at index i and to the others
ToggleFrame(i) ==
  /\ Len(todos') = Len(todos)
  /\ todos'[i].completed = ~todos[i].completed
  /\ todos'[i].id = todos[i].id
  /\ todos'[i].title = todos[i].title
  /\ todos'[i].createdAt = todos[i].createdAt
  /\ \A j \in 1..Len(todos) : j # i => todos'[j] = todos[j]

\* C10: toggleComplete(id) for an id of the collection flips the completed
\* flag of that todo and keeps its id, title, createdAt and position and every
\* other todo; toggling twice gives back the original completed value.
C10_Toggle ==
  /\ [][\A id \in IdsOf(todos) :
          toggleComplete(id) => ToggleFrame(FindIndex(todos, id))]_vars
  /\ [](\A id \in IdsOf(todos) : \A t \in ClockReads(Matches(todos, id)) :
          \A i \in 1..Len(todos) :
            ToggleMap(ToggleMap(todos, id, t), id, t)[i].completed = todos[i].completed)

\* the same, for the collections in which the ids are distinct
C10_ToggleDistinctIds ==
  [][\A id \in IdsOf(todos) :
       (toggleComplete(id) /\ C8_UniqueIds) => ToggleFrame(FindIndex(todos, id))]_vars

\* C11 as stated: every toggleComplete(id) on a todo of the collection makes
\* that todo's updatedAt strictly greater than it was.
C11_UpdatedAtStrictlyIncreases ==
  [][\A id \in IdsOf(todos) :
       toggleComplete(id) =>
         \A i \in 1..Len(todos) :
           todos[i].id = id => todos'[i].updatedAt > todos[i].updatedAt]_vars

\* C11 amended: every toggleComplete(id) on a todo of the collection sets that
\* todo's updatedAt to a value Date.now() returns during the call (between the
\* clock before the call and the clock after it), which is never less than the
\* updatedAt it had (and equal to it when the previous mutation of the todo
\* read the same clock value).
C11_UpdatedAtIsClock ==
  [][\A id \in IdsOf(todos) :
       toggleComplete(id) =>
         \A i \in 1..Len(todos) :
           todos[i].id = id =>
             /\ todos'[i].updatedAt \in now..now'
             /\ todos'[i].updatedAt >= todos[i].updatedAt]_vars

\* a completed todo whose last mutation read the present clock value, after
\* the clock has moved: the next toggle cannot raise its updatedAt
C11_Witness ==
  /\ Len(todos) >= 1
  /\ todos[1].completed
  /\ todos[1].createdAt < now
  /\ todos[1].updatedAt = now

\* the clear-completed prompt is answered affirmatively
ClearConfirmed ==
  \/ ClearWeb(TRUE)
  \/ \E d \in alerts : d.kind = "clear" /\ AlertPress(d, TRUE)

\* clearCompleted is called
ClearCalled == ClearNone \/ ClearNative \/ \E ok \in BOOLEAN : ClearWeb(ok)

\* C12: a confirmed clearCompleted leaves exactly the uncompleted todos,
\* unchanged and in their order; a clearCompleted called when nothing is
\* completed (as right after a clear) changes nothing and opens no dialog, and
\* clearing what was cleared removes nothing.
C12_ClearCompleted ==
  /\ [][/\ ClearConfirmed =>
             /\ IsProjection(todos', todos, FALSE)
             /\ \A i \in 1..Len(todos') : ~todos'[i].completed
        /\ (ClearCalled /\ \A i \in 1..Len(todos) : ~todos[i].completed) =>
             (todos' = todos /\ alerts' = alerts)]_vars
  /\ [](RemoveCompleted(RemoveCompleted(todos)) = RemoveCompleted(todos))

\* the clear dialog is up over three todos of which the middle one is completed
C12_Witness ==
  /\ Dialog("clear", Null) \in alerts
  /\ Len(todos) = 3
  /\ ~todos[1].completed /\ todos[2].completed /\ ~todos[3].completed
  /\ todos[1] # todos[3]

\* saveTodo runs for an edit of a todo of the collection, with a non-blank draft
EditSaved ==
  /\ editingId \in IdsOf(todos)
  /\ HasNonSpace(currentTitle)
  /\ saveTodo

\* what saving an edit does to the todo at index i and to the others
UpdateTitleFrame(i) ==
  /\ Len(todos') = Len(todos)
  /\ IsTrimOf(todos'[i].title, currentTitle)
  /\ todos'[i].updatedAt \in now..now'
  /\ todos'[i].id = todos[i].id
  /\ todos'[i].completed = todos[i].completed
  /\ todos'[i].createdAt = todos[i].createdAt
  /\ \A j \in 1..Len(todos) : j # i => todos'[j] = todos[j]

\* C13: saving an edit of a present todo with a non-blank draft changes only
\* that todo's title (to the trimmed draft) and updatedAt; its id, completed,
\* createdAt and index, every other todo and the length are unchanged.
C13_UpdateTitleFrame ==
  [][EditSaved => UpdateTitleFrame(FindIndex(todos, editingId))]_vars

\* the same, for the collections in which the ids are distinct
C13_UpdateTitleFrameDistinctIds ==
  [][(EditSaved /\ C8_UniqueIds) => UpdateTitleFrame(FindIndex(todos, editingId))]_vars

\* C14: leaving the editor without saving, by the Cancel button or by the
\* overlay or a close request, changes no todo and leaves the session idle:
\* whenever the editor is closed, editingId is null and the draft is empty.
C14_CancelDiscards ==
  /\ [][(CancelButton \/ RequestClose) =>
          /\ todos' = todos
          /\ ~isModalVisible' /\ editingId' = Null /\ currentTitle' = <<>>]_vars
  /\ [](~isModalVisible => (editingId = Null /\ currentTitle = <<>>))

\* the part of C14 that the overlay and the close request keep: they hide the
\* editor and change no todo
C14_CloseKeepsTodos ==
  [][(CancelButton \/ RequestClose) => (todos' = todos /\ ~isModalVisible')]_vars

\* the delete prompt for id is answered affirmatively
DeleteConfirmed(id) ==
  \/ DeleteWeb(id, TRUE)
  \/ Dialog("delete", id) \in alerts /\ AlertPress(Dialog("delete", id), TRUE)

\* c without its i-th todo
WithoutIndex(c, i) == SubSeq(c, 1, i - 1) \o SubSeq(c, i + 1, Len(c))

\* C15: a confirmed delete(id) of an id of the collection removes exactly the
\* todo with that id: the collection is one shorter, the other todos are
\* unchanged and in their order, and the id is gone, so that a second confirmed
\* delete of it finds nothing and changes nothing.
C15_Delete ==
  [][\A id \in IdsOf(todos) :
       DeleteConfirmed(id) =>
         /\ Len(todos') = Len(todos) - 1
         /\ todos' = WithoutIndex(todos, FindIndex(todos, id))
         /\ id \notin IdsOf(todos')
         /\ performDelete(todos', id) = todos']_vars

\* the same, for the collections in which the ids are distinct
C15_DeleteDistinctIds ==
  [][\A id \in IdsOf(todos) :
       (DeleteConfirmed(id) /\ C8_UniqueIds) =>
         /\ Len(todos') = Len(todos) - 1
         /\ todos' = WithoutIndex(todos, FindIndex(todos, id))
         /\ id \notin IdsOf(todos')
         /\ performDelete(todos', id) = todos']_vars

\* C16: opening the editor yields one fresh draft whatever the session was:
\* after openEditModal(id) for an id of the collection the editor is visible,
\* editingId = id and the draft is the title of the todo opened, whichever
\* todo with that id it is; after openAddModal the editor is visible,
\* editingId is null and the draft is empty; in both cases the previous draft
\* is gone and no todo changes.
C16_FreshDraft ==
  [][/\ openAddModal =>
          /\ isModalVisible' /\ editingId' = Null /\ currentTitle' = <<>>
          /\ todos' = todos
     /\ \A id \in IdsOf(todos) :
          openEditModal(id) =>
            /\ isModalVisible' /\ editingId' = id
            /\ \A i \in 1..Len(todos) : todos[i].id = id => currentTitle' = todos[i].title
            /\ todos' = todos]_vars

\* the same, for the collections in which the ids are distinct
C16_FreshDraftDistinctIds ==
  [][C8_UniqueIds =>
       /\ openAddModal =>
            /\ isModalVisible' /\ editingId' = Null /\ currentTitle' = <<>>
            /\ todos' = todos
       /\ \A id \in IdsOf(todos) :
            openEditModal(id) =>
              /\ isModalVisible' /\ editingId' = id
              /\ \A i \in 1..Len(todos) : todos[i].id = id => currentTitle' = todos[i].title
              /\ todos' = todos]_vars

\* what identifies a todo for its whole life
Keys(c) == [i \in 1..Len(c) |-> <<c[i].id, c[i].createdAt>>]

RECURSIVE IsSubseq(_, _)
\* a is b with some elements left out
IsSubseq(a, b) ==
  IF a = <<>> THEN TRUE
  ELSE IF b = <<>> THEN FALSE
  ELSE IF Head(a) = Head(b) THEN IsSubseq(Tail(a), Tail(b))
  ELSE IsSubseq(a, Tail(b))

NewestFirst ==
  \A i, j \in 1..Len(todos) : i < j => todos[i].createdAt >= todos[j].createdAt

\* the todos that remain after the step are in the order they had before it;
\* the only todo that can be new is the head
OrderKept ==
  \/ IsSubseq(Keys(todos'), Keys(todos))
  \/ todos' # <<>> /\ Tail(Keys(todos')) = Keys(todos)

\* C17: in every reachable state the collection is newest-first (createdAt is
\* non-increasing along the indices), and no step (create, edit, toggle,
\* delete, clear completed) changes the relative order of two todos that remain.
C17_NewestFirst == []NewestFirst /\ [][OrderKept]_vars

\* three todos, the head created later than the last, and the last (the oldest)
\* the one most recently updated
C17_Witness ==
  /\ Len(todos) = 3
  /\ todos[1].createdAt > todos[3].createdAt
  /\ todos[3].updatedAt > todos[3].createdAt
  /\ todos[1].updatedAt = Unset

\* a delete or clear-completed confirmation dialog waits for its answer
ConfirmShown == \E d \in alerts : d.kind \in {"delete", "clear"}

\* C18: opening a confirmation dialog changes no todo, and while a delete or
\* clear-completed dialog waits for its answer the only step that changes the
\* collection is the press of a button of a waiting dialog: no edit, toggle,
\* create or other deletion happens in between.
C18_NoInterleaving ==
  [][/\ (alerts' \ alerts # {}) => todos' = todos
     /\ ConfirmShown =>
          \/ \E d \in alerts, ok \in BOOLEAN : AlertPress(d, ok)
          \/ todos' = todos]_vars

\* the part of C18 that holds: the step that opens a dialog changes no todo
C18_OpeningKeepsTodos ==
  [][(alerts' \ alerts # {}) => todos' = todos]_vars

====
